---------------------------- MODULE Spec2Model ----------------------------
(***************************************************************************)
(* The per-instruction feature extractors of capa's IDA backend            *)
(* (capa/features/extractors/ida/insn.py) walking a small disassembly      *)
(* database, and the per-sample wrapper of scripts/bulk-process.py.        *)
(*                                                                         *)
(* Texts (disassembly lines, comments, API names) are sequences of         *)
(* one-character strings so that strip(), lower() and the substring test   *)
(* are computed.  A raw 32-bit displacement is the pair <<hi, lo>> of its  *)
(* 16-bit halves, so that the full width 2^32 is kept.                     *)
(***************************************************************************)
EXTENDS Integers, Sequences, FiniteSets, Bags, TLC

(***************************************************************************)
(* Bounds of the model.                                                    *)
(***************************************************************************)
\* instructions of the analysed function
MaxInsns == 2
\* walks of main() over the same database
MaxRuns == 2
\* bytes read per data reference (the program's constant, scaled down)
MAX_BYTES_FEATURE_SIZE == 4

(***************************************************************************)
(* Texts.                                                                  *)
(***************************************************************************)
kw_cookie == <<"c","o","o","k","i","e">>
kw_stack == <<"s","t","a","c","k">>
kw_security == <<"s","e","c","u","r","i","t","y">>
pat_fs30 == <<" ","f","s",":","3","0","h">>
pat_gs60 == <<" ","g","s",":","6","0","h">>
pat_fs == <<" ","f","s",":">>
pat_gs == <<" ","g","s",":">>
cmt_sep == <<";"," ">>
s_kernel32 == <<"k","e","r","n","e","l","3","2">>
s_CreateFileA == <<"C","r","e","a","t","e","F","i","l","e","A">>
s_ReadFile == <<"R","e","a","d","F","i","l","e">>
s_dot == <<".">>
cmt_security_cookie == <<"s","e","c","u","r","i","t","y"," ","c","o","o","k","i","e">>
str_acr == <<"A","C","R"," "," ",">"," ">>

UpperChars == <<"A","B","C","D","E","F","G","H","I","J","K","L","M","N","O","P","Q","R","S","T","U","V","W","X","Y","Z">>
LowerChars == <<"a","b","c","d","e","f","g","h","i","j","k","l","m","n","o","p","q","r","s","t","u","v","w","x","y","z">>
Whitespace == {" ", "\t", "\n", "\r"}

\* an absent text (Python's None) is <<>>, a present text t is <<t>>
None == <<>>
Some(t) == <<t>>

\* str.lower()
lower_char(c) ==
  IF \E i \in DOMAIN UpperChars : UpperChars[i] = c
  THEN LowerChars[CHOOSE i \in DOMAIN UpperChars : UpperChars[i] = c]
  ELSE c
lower(s) == [i \in DOMAIN s |-> lower_char(s[i])]

\* str.strip()
RECURSIVE lstrip(_)
lstrip(s) == IF s # <<>> /\ Head(s) \in Whitespace THEN lstrip(Tail(s)) ELSE s
RECURSIVE rstrip(_)
rstrip(s) ==
  IF s # <<>> /\ s[Len(s)] \in Whitespace THEN rstrip(SubSeq(s, 1, Len(s) - 1)) ELSE s
strip(s) == rstrip(lstrip(s))

\* Python's `sub in s`
Contains(s, sub) ==
  \E i \in 0..(Len(s) - Len(sub)) : SubSeq(s, i + 1, i + Len(sub)) = sub

\* concatenation of a sequence of sequences
RECURSIVE Flatten(_)
Flatten(ss) == IF ss = <<>> THEN <<>> ELSE Head(ss) \o Flatten(Tail(ss))

\* the bag of the elements of a sequence
RECURSIVE SeqToBag(_)
SeqToBag(s) == IF s = <<>> THEN EmptyBag ELSE SetToBag({Head(s)}) (+) SeqToBag(Tail(s))

(***************************************************************************)
(* The disassembly database the backend answers from.                      *)
(***************************************************************************)
\* sections of the image: [start, end)
Segments ==
  << [name |-> ".text",  start |-> 4198400, end |-> 4202496],   \* 0x401000
     [name |-> ".text2", start |-> 4214784, end |-> 4218880],   \* 0x405000
     [name |-> ".data",  start |-> 4259840, end |-> 4263936],   \* 0x410000
     [name |-> ".idata", start |-> 4665344, end |-> 4669440] >> \* 0x473000

NoSeg == "none"

\* idaapi.getseg(ea): the section holding ea, or none
getseg(ea) ==
  IF \E i \in DOMAIN Segments : Segments[i].start <= ea /\ ea < Segments[i].end
  THEN (CHOOSE s \in {Segments[i] : i \in DOMAIN Segments} :
          s.start <= ea /\ ea < s.end).name
  ELSE NoSeg

\* idaapi.is_mapped(ea)
is_mapped(ea) == getseg(ea) # NoSeg

\* a raw 32-bit value <<hi, lo>>; every section lies below 2^31
U32(hi, lo) == <<hi, lo>>
ToU32(v) == <<(v \div 65536) % 65536, v % 65536>>
is_mapped_u32(raw) == raw[1] < 32768 /\ is_mapped(raw[1] * 65536 + raw[2])

\* functions: the analysed function, four thunks and a library function
FuncMain   == [start_ea |-> 4198400, thunk |-> FALSE, lib |-> FALSE]  \* sub_401000
FuncThunk  == [start_ea |-> 4200448, thunk |-> TRUE,  lib |-> FALSE]  \* sub_401800
FuncThunk2 == [start_ea |-> 4200464, thunk |-> TRUE,  lib |-> FALSE]  \* sub_401810
FuncThunk3 == [start_ea |-> 4200480, thunk |-> TRUE,  lib |-> FALSE]  \* sub_401820
FuncThunk4 == [start_ea |-> 4200496, thunk |-> TRUE,  lib |-> FALSE]  \* sub_401830
FuncLib    == [start_ea |-> 4214784, thunk |-> FALSE, lib |-> TRUE]   \* sub_405000
Functions == <<FuncMain, FuncThunk, FuncThunk2, FuncThunk3, FuncThunk4, FuncLib>>
NoFunc == [start_ea |-> 0, thunk |-> FALSE, lib |-> FALSE]

\* addresses of the import slots and of the data items
EA_CreateFileA == 4665400   \* 0x473038
EA_ReadFile    == 4665404   \* 0x47303C
EA_iid         == 4259840   \* 0x410000
EA_zeros       == 4260096   \* 0x410100
EA_aAcr        == 4260352   \* 0x410200
EA_cookie      == 4260608   \* 0x410300

\* idautils.DataRefsFrom(ea) for the thunks' entries
ThunkDataRefs(ea) ==
  CASE ea = FuncThunk.start_ea  -> <<EA_CreateFileA>>
    [] ea = FuncThunk2.start_ea -> <<FuncThunk.start_ea>>
    [] ea = FuncThunk3.start_ea -> <<EA_iid, EA_ReadFile>>
    [] ea = FuncThunk4.start_ea -> <<EA_CreateFileA>>
    [] OTHER -> <<>>

\* the import views the backend can report: address -> (module, symbol);
\* the backend lists the entry of the fourth thunk as an import itself
ImportsFull ==
  { [ea |-> EA_CreateFileA, info |-> <<s_kernel32, s_CreateFileA>>],
    [ea |-> EA_ReadFile,    info |-> <<s_kernel32, s_ReadFile>>],
    [ea |-> FuncThunk4.start_ea, info |-> <<s_kernel32, s_ReadFile>>] }
ImportsEmpty == {}
ImportViews == {ImportsFull, ImportsEmpty}

\* dict.keys() and dict.get(key, ()) on an import mapping
keys(m) == {e.ea : e \in m}
get(m, key) == IF key \in keys(m) THEN (CHOOSE e \in m : e.ea = key).info ELSE <<>>

\* the bytes stored at the data items and at the import slot
Memory(ea) ==
  CASE ea = EA_iid    -> <<212, 24, 65, 0, 0, 192>>
    [] ea = EA_CreateFileA -> <<0, 16, 224, 119, 0, 0>>
    [] ea = EA_zeros  -> <<0, 0, 0, 0, 0, 0>>
    [] ea = EA_aAcr   -> <<65, 67>>
    [] ea = EA_cookie -> <<78, 230, 64, 187>>
    [] OTHER -> <<>>

\* the string the backend recognises at an address, if any
StringAt(ea) == IF ea = EA_aAcr THEN Some(str_acr) ELSE None

(***************************************************************************)
(* Operands and instructions as the backend decodes them.                  *)
(* Register numbers: eax 0, ecx 1, edx 2, ebx 3, esp 4, ebp 5, esi 6,      *)
(* edi 7.  A non-register operand reports register 0 unless it has a base. *)
(***************************************************************************)
Operand(type, reg, value, addr, has_off, dtype, write, stkvar) ==
  [type |-> type, reg |-> reg, value |-> value, addr |-> addr, has_off |-> has_off,
   dtype |-> dtype, write |-> write, stkvar |-> stkvar]

Reg(r, write)       == Operand("o_reg", r, 0, U32(0, 0), FALSE, "dt_dword", write, FALSE)
Reg8(r, write)      == Operand("o_reg", r, 0, U32(0, 0), FALSE, "dt_byte", write, FALSE)
Imm(v, dtype)       == Operand("o_imm", 0, v, U32(0, 0), FALSE, dtype, FALSE, FALSE)
Mem(a)              == Operand("o_mem", 0, 0, ToU32(a), FALSE, "dt_dword", FALSE, FALSE)
Near(a)             == Operand("o_near", 0, 0, ToU32(a), FALSE, "dt_dword", FALSE, FALSE)
Phrase(r)           == Operand("o_phrase", r, 0, U32(0, 0), FALSE, "dt_dword", FALSE, FALSE)
Displ(r, raw, stk)  == Operand("o_displ", r, 0, raw, TRUE, "dt_dword", FALSE, stk)
VoidOp              == Operand("o_void", 0, 0, U32(0, 0), FALSE, "dt_dword", FALSE, FALSE)

Insn(mnem, ops, kind, text, cmt, crefs, drefs) ==
  [mnem |-> mnem, ops |-> ops,
   is_call |-> (kind = "call"), is_ret |-> (kind = "ret"), sp_mod |-> (kind = "sp"),
   text |-> text, cmt |-> cmt, crefs |-> crefs, drefs |-> drefs]

\* literal extraction
I_push_num ==
  Insn("push", <<Imm(3225264, "dt_dword")>>, "",
       <<"p","u","s","h"," ","3","1","3","6","B","0","h">>,
       Some(<<"d","w","C","o","n","t","r","o","l","C","o","d","e">>), <<>>, <<>>)
I_push_iid ==
  Insn("push", <<Imm(EA_iid, "dt_dword")>>, "",
       <<"p","u","s","h"," ","o","f","f","s","e","t"," ","i","i","d","_","0","0","4","1","1","8","d","4","_","I","S","h","e","l","l","L","i","n","k","A">>,
       Some(<<"r","i","i","d">>), <<>>, <<EA_iid>>)
I_push_str ==
  Insn("push", <<Imm(EA_aAcr, "dt_dword")>>, "",
       <<"p","u","s","h"," ","o","f","f","s","e","t"," ","a","A","c","r">>,
       Some(<<"\"","A","C","R"," "," ",">"," ","\"">>), <<>>, <<EA_aAcr>>)
I_push_zero ==
  Insn("push", <<Imm(EA_zeros, "dt_dword")>>, "",
       <<"p","u","s","h"," ","o","f","f","s","e","t"," ","u","n","k","_","4","1","0","1","0","0">>,
       None, <<>>, <<EA_zeros>>)
I_retn ==
  Insn("retn", <<Imm(8, "dt_word")>>, "ret",
       <<"r","e","t","n"," ","8">>,
       None, <<>>, <<>>)
I_add_esp ==
  Insn("add", <<Reg(4, TRUE), Imm(12, "dt_dword")>>, "sp",
       <<"a","d","d"," ","e","s","p",","," ","0","C","h">>,
       None, <<>>, <<>>)
I_cmp_al ==
  Insn("cmp", <<Reg8(0, FALSE), Imm(65, "dt_byte")>>, "",
       <<"c","m","p"," ","a","l",","," ","4","1","h">>,
       None, <<>>, <<>>)
\* xor and the stack cookie
I_xor_eax_eax ==
  Insn("xor", <<Reg(0, TRUE), Reg(0, FALSE)>>, "",
       <<"x","o","r"," ","e","a","x",","," ","e","a","x">>,
       None, <<>>, <<>>)
I_xor_edi_eax ==
  Insn("xor", <<Reg(7, TRUE), Reg(0, FALSE)>>, "",
       <<"x","o","r"," ","e","d","i",","," ","e","a","x">>,
       None, <<>>, <<>>)
I_xor_ecx_ebp ==
  Insn("xor", <<Reg(1, TRUE), Reg(5, FALSE)>>, "",
       <<"x","o","r"," ","e","c","x",","," ","e","b","p">>,
       Some(<<"S","t","a","c","k","C","o","o","k","i","e">>), <<>>, <<>>)
I_xor_ecx_imm ==
  Insn("xor", <<Reg(1, TRUE), Imm(31, "dt_dword")>>, "",
       <<"x","o","r"," ","e","c","x",","," ","1","F","h">>,
       None, <<>>, <<>>)
I_mov_cookie ==
  Insn("mov", <<Reg(0, TRUE), Mem(EA_cookie)>>, "",
       <<"m","o","v"," ","e","a","x",","," ","_","_","_","s","e","c","u","r","i","t","y","_","c","o","o","k","i","e">>,
       None, <<>>, <<EA_cookie>>)
I_mov_cmt ==
  Insn("mov", <<Reg(0, TRUE), Mem(EA_cookie)>>, "",
       <<"m","o","v"," ","e","a","x",","," ","d","w","o","r","d","_","4","1","0","3","0","0">>,
       Some(cmt_security_cookie), <<>>, <<EA_cookie>>)
I_cmp_cookie ==
  Insn("cmp", <<Reg(0, FALSE), Mem(EA_cookie)>>, "",
       <<"c","m","p"," ","e","a","x",","," ","_","_","_","s","e","c","u","r","i","t","y","_","c","o","o","k","i","e">>,
       None, <<>>, <<EA_cookie>>)
I_mov_ecx_eax ==
  Insn("mov", <<Reg(1, TRUE), Reg(0, FALSE)>>, "",
       <<"m","o","v"," ","e","c","x",","," ","e","a","x">>,
       None, <<>>, <<>>)
\* structure offsets
I_cmp_displ ==
  Insn("cmp", <<Displ(6, U32(0, 4), FALSE), Reg(3, FALSE)>>, "",
       <<"c","m","p"," ","[","e","s","i","+","4","]",","," ","e","b","x">>,
       None, <<>>, <<>>)
I_mov_stkvar ==
  Insn("mov", <<Reg(0, TRUE), Displ(5, U32(65535, 65532), TRUE)>>, "",
       <<"m","o","v"," ","e","a","x",","," ","[","e","b","p","+","v","a","r","_","4","]">>,
       None, <<>>, <<>>)
I_mov_mapped ==
  Insn("mov", <<Reg(6, TRUE), Displ(6, ToU32(EA_iid), FALSE)>>, "",
       <<"m","o","v"," ","e","s","i",","," ","d","w","o","r","d","_","4","1","0","0","0","0","[","e","s","i","]">>,
       None, <<>>, <<EA_iid>>)
I_mov_neg ==
  Insn("mov", <<Reg(0, TRUE), Displ(1, U32(65535, 65532), FALSE)>>, "",
       <<"m","o","v"," ","e","a","x",","," ","[","e","c","x","-","4","]">>,
       None, <<>>, <<>>)
I_mov_max ==
  Insn("mov", <<Reg(0, TRUE), Displ(1, U32(32767, 65535), FALSE)>>, "",
       <<"m","o","v"," ","e","a","x",","," ","[","e","c","x","+","7","F","F","F","F","F","F","F","h","]">>,
       None, <<>>, <<>>)
I_mov_min ==
  Insn("mov", <<Reg(0, TRUE), Displ(1, U32(32768, 0), FALSE)>>, "",
       <<"m","o","v"," ","e","a","x",","," ","[","e","c","x","-","8","0","0","0","0","0","0","0","h","]">>,
       None, <<>>, <<>>)
I_mov_phrase ==
  Insn("mov", <<Reg(0, TRUE), Phrase(6)>>, "",
       <<"m","o","v"," ","e","a","x",","," ","[","e","s","i","]">>,
       None, <<>>, <<>>)
\* calls and jumps
I_call_import ==
  Insn("call", <<Mem(EA_CreateFileA)>>, "call",
       <<"c","a","l","l"," ","d","s",":","C","r","e","a","t","e","F","i","l","e","A">>,
       None, <<EA_CreateFileA>>, <<EA_CreateFileA>>)
I_call_thunk ==
  Insn("call", <<Near(FuncThunk.start_ea)>>, "call",
       <<"c","a","l","l"," ","s","u","b","_","4","0","1","8","0","0">>,
       None, <<FuncThunk.start_ea>>, <<>>)
I_call_thunk2 ==
  Insn("call", <<Near(FuncThunk2.start_ea)>>, "call",
       <<"c","a","l","l"," ","s","u","b","_","4","0","1","8","1","0">>,
       None, <<FuncThunk2.start_ea>>, <<>>)
I_call_thunk3 ==
  Insn("call", <<Near(FuncThunk3.start_ea)>>, "call",
       <<"c","a","l","l"," ","s","u","b","_","4","0","1","8","2","0">>,
       None, <<FuncThunk3.start_ea>>, <<>>)
I_call_thunk4 ==
  Insn("call", <<Near(FuncThunk4.start_ea)>>, "call",
       <<"c","a","l","l"," ","j","_","R","e","a","d","F","i","l","e">>,
       None, <<FuncThunk4.start_ea>>, <<>>)
I_call_lib ==
  Insn("call", <<Near(FuncLib.start_ea)>>, "call",
       <<"c","a","l","l"," ","s","u","b","_","4","0","5","0","0","0">>,
       None, <<FuncLib.start_ea>>, <<>>)
I_call_self ==
  Insn("call", <<Near(FuncMain.start_ea)>>, "call",
       <<"c","a","l","l"," ","s","u","b","_","4","0","1","0","0","0">>,
       None, <<FuncMain.start_ea>>, <<>>)
I_call_reg ==
  Insn("call", <<Reg(0, FALSE)>>, "call",
       <<"c","a","l","l"," ","e","a","x">>,
       None, <<>>, <<>>)
I_call_displ ==
  Insn("call", <<Displ(2, U32(0, 4), FALSE)>>, "call",
       <<"c","a","l","l"," ","d","w","o","r","d"," ","p","t","r"," ","[","e","d","x","+","4","]">>,
       None, <<>>, <<>>)
I_jmp_far ==
  Insn("jmp", <<Near(4214800)>>, "",
       <<"j","m","p"," ","l","o","c","_","4","0","5","0","1","0">>,
       None, <<4214800>>, <<>>)
I_jmp_nowhere ==
  Insn("jmp", <<Near(5242880)>>, "",
       <<"j","m","p"," ","l","o","c","_","5","0","0","0","0","0">>,
       None, <<5242880>>, <<>>)
\* segment access
I_mov_peb ==
  Insn("mov", <<Reg(0, TRUE), Mem(48)>>, "",
       <<"m","o","v"," ","e","a","x",","," ","l","a","r","g","e"," ","f","s",":","3","0","h">>,
       None, <<>>, <<>>)

\* the decoded instructions, by name
InsnTable ==
  [ push_num |-> I_push_num,
    push_iid |-> I_push_iid,
    push_str |-> I_push_str,
    push_zero |-> I_push_zero,
    retn |-> I_retn,
    add_esp |-> I_add_esp,
    cmp_al |-> I_cmp_al,
    xor_eax_eax |-> I_xor_eax_eax,
    xor_edi_eax |-> I_xor_edi_eax,
    xor_ecx_ebp |-> I_xor_ecx_ebp,
    xor_ecx_imm |-> I_xor_ecx_imm,
    mov_cookie |-> I_mov_cookie,
    mov_cmt |-> I_mov_cmt,
    cmp_cookie |-> I_cmp_cookie,
    mov_ecx_eax |-> I_mov_ecx_eax,
    cmp_displ |-> I_cmp_displ,
    mov_stkvar |-> I_mov_stkvar,
    mov_mapped |-> I_mov_mapped,
    mov_neg |-> I_mov_neg,
    mov_max |-> I_mov_max,
    mov_min |-> I_mov_min,
    mov_phrase |-> I_mov_phrase,
    call_import |-> I_call_import,
    call_thunk |-> I_call_thunk,
    call_thunk2 |-> I_call_thunk2,
    call_thunk3 |-> I_call_thunk3,
    call_thunk4 |-> I_call_thunk4,
    call_lib |-> I_call_lib,
    call_self |-> I_call_self,
    call_reg |-> I_call_reg,
    call_displ |-> I_call_displ,
    jmp_far |-> I_jmp_far,
    jmp_nowhere |-> I_jmp_nowhere,
    mov_peb |-> I_mov_peb ]

\* the instructions a block is drawn from
Universe == DOMAIN InsnTable

\* the instructions that set the context of another: the cookie load, an xor
\* on the cookie register, and an import call
Context == {"mov_cmt", "xor_edi_eax", "call_import"}

(***************************************************************************)
(* State.                                                                  *)
(***************************************************************************)
VARIABLES
  prog,                    \* the analysed function: its instructions and block split
  file_imports,            \* the import view the backend reports now
  imports_changed,         \* the backend's import view changed since the start
  _file_imports_cache,     \* the module global: None or Some([obj, map])
  get_file_imports_calls,  \* backend import queries made so far
  get_imports_calls,       \* calls of get_imports() made so far
  run,                     \* the walk of main() in progress: 1..MaxRuns
  pos,                     \* next position of the walk
  features,                \* features[r][i]: what walk r extended the list with at step i
  batch,                   \* state of scripts/bulk-process.py
  keyword_test,            \* a call of contains_stack_cookie_keywords: argument, result
  workers                  \* callers of get_imports() running side by side

ext_vars == <<prog, file_imports, imports_changed, _file_imports_cache,
              get_file_imports_calls, get_imports_calls, run, pos, features>>
vars == <<prog, file_imports, imports_changed, _file_imports_cache,
          get_file_imports_calls, get_imports_calls, run, pos, features, batch,
          keyword_test, workers>>

(***************************************************************************)
(* Backend queries over the analysed function.                             *)
(***************************************************************************)
InsnEA(i) == FuncMain.start_ea + 2 * (i - 1)

\* the decoded instruction at index i, with its address
insn_at(i) == [ea |-> InsnEA(i)] @@ InsnTable[prog.insns[i]]

\* helpers.get_instructions_in_range(start, end)
get_instructions_in_range(start, end) ==
  LET idx == SelectSeq([i \in 1..Len(prog.insns) |-> i],
                       LAMBDA i : start <= InsnEA(i) /\ InsnEA(i) < end)
  IN  [k \in DOMAIN idx |-> insn_at(idx[k])]

\* idaapi.FlowChart(f): the basic blocks [start_ea, end_ea) of f
FlowChart(f) ==
  IF f # FuncMain THEN << [start_ea |-> f.start_ea, end_ea |-> f.start_ea + 2] >>
  ELSE << [start_ea |-> InsnEA(1), end_ea |-> InsnEA(prog.split + 1)] >>
       \o (IF prog.split < Len(prog.insns)
           THEN << [start_ea |-> InsnEA(prog.split + 1),
                    end_ea |-> InsnEA(Len(prog.insns) + 1)] >>
           ELSE <<>>)

\* helpers.get_functions(skip_thunks, skip_libs)
get_functions(skip_thunks, skip_libs) ==
  SelectSeq(Functions, LAMBDA f : ~(skip_thunks /\ f.thunk) /\ ~(skip_libs /\ f.lib))

\* idaapi.get_func(ea): the function whose body holds ea, or none
get_func(ea) ==
  IF \E i \in DOMAIN Functions :
       Functions[i].start_ea <= ea /\ ea < Functions[i].start_ea + 16
  THEN CHOOSE f \in {Functions[i] : i \in DOMAIN Functions} :
         f.start_ea <= ea /\ ea < f.start_ea + 16
  ELSE NoFunc

\* idautils.CodeRefsFrom(ea, False) and idautils.DataRefsFrom(ea)
CodeRefsFrom(ea) ==
  IF \E i \in DOMAIN prog.insns : InsnEA(i) = ea
  THEN insn_at(CHOOSE i \in DOMAIN prog.insns : InsnEA(i) = ea).crefs
  ELSE <<>>
DataRefsFrom(ea) ==
  IF \E i \in DOMAIN prog.insns : InsnEA(i) = ea
  THEN insn_at(CHOOSE i \in DOMAIN prog.insns : InsnEA(i) = ea).drefs
  ELSE ThunkDataRefs(ea)

\* idc.GetDisasm(ea): the rendered line, with the comment when there is one
GetDisasm(insn) ==
  IF insn.cmt = None THEN insn.text ELSE insn.text \o <<" ">> \o cmt_sep \o insn.cmt[1]
\* idaapi.get_cmt(ea, False)
get_cmt(insn) == insn.cmt

\* insn.Op1, insn.Op2: an operand slot the instruction does not use is void
Op(insn, n) == IF n <= Len(insn.ops) THEN insn.ops[n] ELSE VoidOp
\* idc.get_operand_type(ea, n)
get_operand_type(insn, n) == Op(insn, n + 1).type

(***************************************************************************)
(* capa.features.extractors.ida.helpers and capa.features.extractors.helpers*)
(***************************************************************************)
get_insn_ops(insn, target_ops) == SelectSeq(insn.ops, LAMBDA op : op.type \in target_ops)

is_sp_modified(insn) == insn.sp_mod

\* the operand's value masked to the width of its data type
mask_op_val(op) ==
  CASE op.dtype = "dt_byte" -> op.value % 256
    [] op.dtype = "dt_word" -> op.value % 65536
    [] OTHER -> op.value

is_op_stack_var(insn, op) == op.stkvar
is_op_write(insn, op) == op.write

\* the phrase decomposition: "offset" is present only for a displacement
get_op_phrase_info(op) == IF op.has_off THEN [offset |-> Some(op.addr)] ELSE [offset |-> None]
\* dict.get("offset", 0)
get_offset(p_info) == IF p_info.offset = None THEN U32(0, 0) ELSE p_info.offset[1]

is_operand_equal(op1, op2) ==
  /\ op1.type = op2.type /\ op1.dtype = op2.dtype /\ op1.reg = op2.reg
  /\ op1.value = op2.value /\ op1.addr = op2.addr

\* the raw value <<hi, lo>> read as a signed number of `bits` bits (16 < bits <= 32)
twos_complement(val, bits) ==
  IF (val[1] \div (2 ^ (bits - 17))) % 2 = 1
  THEN (val[1] - 2 ^ (bits - 16)) * 65536 + val[2]
  ELSE val[1] * 65536 + val[2]

read_bytes_at(ea, count) ==
  LET m == Memory(ea) IN SubSeq(m, 1, IF Len(m) < count THEN Len(m) ELSE count)

all_zeros(bytes) == \A i \in DOMAIN bytes : bytes[i] = 0

find_string_at(ea) == StringAt(ea)

(***************************************************************************)
(* Features.                                                               *)
(***************************************************************************)
Feature(kind, num, txt, bytes, tag) ==
  [kind |-> kind, num |-> num, txt |-> txt, bytes |-> bytes, tag |-> tag]
Number(v)         == Feature("Number", v, <<>>, <<>>, "")
Offset(v)         == Feature("Offset", v, <<>>, <<>>, "")
Bytes(b)          == Feature("Bytes", 0, <<>>, b, "")
String(s)         == Feature("String", 0, s, <<>>, "")
API(name)         == Feature("API", 0, name, <<>>, "")
Mnemonic(m)       == Feature("Mnemonic", 0, <<>>, <<>>, m)
Characteristic(t) == Feature("Characteristic", 0, <<>>, <<>>, t)

\* one emission: (feature, ea)
Yield(feature, ea) == [feature |-> feature, ea |-> ea]

\* the features API(qualified) and API(unqualified) of "module.symbol"
RECURSIVE after_last_dot(_)
after_last_dot(s) ==
  IF Contains(s, s_dot) THEN after_last_dot(Tail(s)) ELSE s
generate_api_features(api, ea) ==
  << Yield(API(api), ea) >>
  \o (IF Contains(api, s_dot) THEN << Yield(API(after_last_dot(api)), ea) >> ELSE <<>>)

(***************************************************************************)
(* The import table cache.                                                 *)
(***************************************************************************)
\* helpers.get_file_imports(): a new mapping object holding the backend's view
get_file_imports == [obj |-> get_file_imports_calls + 1, map |-> file_imports]

\* get_imports() returning the mapping before the build has been stored
get_imports_returns_unbuilt ==
  IF _file_imports_cache = None
  THEN [cache |-> Some(get_file_imports), ret |-> [obj |-> 0, map |-> {}]]
  ELSE [cache |-> _file_imports_cache, ret |-> _file_imports_cache[1]]

\* get_imports() testing `if not _file_imports_cache`
get_imports_rebuilds_empty ==
  IF _file_imports_cache = None \/ _file_imports_cache[1].map = {}
  THEN [cache |-> Some(get_file_imports), ret |-> get_file_imports]
  ELSE [cache |-> _file_imports_cache, ret |-> _file_imports_cache[1]]

\* get_imports(): the value of the global after the call, and the mapping returned
get_imports ==
  IF _file_imports_cache = None
  THEN [cache |-> Some(get_file_imports), ret |-> get_file_imports]
  ELSE [cache |-> _file_imports_cache, ret |-> _file_imports_cache[1]]

(***************************************************************************)
(* The instruction handlers.                                               *)
(***************************************************************************)
\* "%s.%s" % (info[0], info[1])
api_name(info) == info[1] \o s_dot \o info[2]

\* api_of_ref without the thunk branch
api_of_ref_direct_only(ref) ==
  LET info == get(get_imports.ret.map, ref) IN
  IF info # <<>> THEN << api_name(info) >> ELSE <<>>

\* api_of_ref following a thunk that refers to another thunk
api_of_ref_follows_thunk_chain(ref) ==
  LET m == get_imports.ret.map
      is_thunk(ea) == get_func(ea) # NoFunc /\ get_func(ea).thunk
      names(refs) ==
        LET hits == SelectSeq(refs, LAMBDA r : get(m, r) # <<>>)
        IN  [k \in DOMAIN hits |-> api_name(get(m, hits[k]))]
      info == get(m, ref)
  IN  IF info # <<>> THEN << api_name(info) >>
      ELSE IF is_thunk(ref)
      THEN LET refs == DataRefsFrom(ref)
           IN  names(refs)
               \o Flatten([k \in DOMAIN refs |->
                             IF get(m, refs[k]) = <<>> /\ is_thunk(refs[k])
                             THEN names(DataRefsFrom(refs[k])) ELSE <<>>])
      ELSE <<>>

\* the names one code reference of a call resolves to
api_of_ref(ref) ==
  LET info == get(get_imports.ret.map, ref) IN
  IF info # <<>> THEN << api_name(info) >>
  ELSE LET f == get_func(ref) IN
       IF f # NoFunc /\ f.thunk
       THEN LET refs == DataRefsFrom(ref)
                hits == SelectSeq(refs, LAMBDA r : get(get_imports.ret.map, r) # <<>>)
            IN  [k \in DOMAIN hits |-> api_name(get(get_imports.ret.map, hits[k]))]
       ELSE <<>>

check_for_api_call(insn) ==
  IF ~insn.is_call THEN <<>>
  ELSE LET refs == CodeRefsFrom(insn.ea)
       IN  Flatten([k \in DOMAIN refs |-> api_of_ref(refs[k])])

extract_insn_api_features(f, bb, insn) ==
  LET apis == check_for_api_call(insn)
  IN  Flatten([k \in DOMAIN apis |-> generate_api_features(apis[k], insn.ea)])

\* extract_insn_number_features with the mapped test inverted
extract_insn_number_features_mapped_only(f, bb, insn) ==
  IF insn.is_ret THEN <<>>
  ELSE IF is_sp_modified(insn) THEN <<>>
  ELSE LET ops == SelectSeq(get_insn_ops(insn, {"o_imm"}),
                            LAMBDA op : is_mapped(mask_op_val(op)))
       IN  [k \in DOMAIN ops |-> Yield(Number(mask_op_val(ops[k])), insn.ea)]

\* extract_insn_number_features without the stack pointer test
extract_insn_number_features_no_sp_test(f, bb, insn) ==
  IF insn.is_ret THEN <<>>
  ELSE LET ops == SelectSeq(get_insn_ops(insn, {"o_imm"}),
                            LAMBDA op : ~is_mapped(mask_op_val(op)))
       IN  [k \in DOMAIN ops |-> Yield(Number(mask_op_val(ops[k])), insn.ea)]

extract_insn_number_features(f, bb, insn) ==
  IF insn.is_ret THEN <<>>
  ELSE IF is_sp_modified(insn) THEN <<>>
  ELSE LET ops == SelectSeq(get_insn_ops(insn, {"o_imm"}),
                            LAMBDA op : ~is_mapped(mask_op_val(op)))
       IN  [k \in DOMAIN ops |-> Yield(Number(mask_op_val(ops[k])), insn.ea)]

\* extract_insn_bytes_features without the all-zeros test
extract_insn_bytes_features_keeps_zeros(f, bb, insn) ==
  IF insn.is_call THEN <<>>
  ELSE LET refs == SelectSeq(DataRefsFrom(insn.ea),
                             LAMBDA ref : read_bytes_at(ref, MAX_BYTES_FEATURE_SIZE) # <<>>)
       IN  [k \in DOMAIN refs |->
              Yield(Bytes(read_bytes_at(refs[k], MAX_BYTES_FEATURE_SIZE)), insn.ea)]

extract_insn_bytes_features(f, bb, insn) ==
  IF insn.is_call THEN <<>>
  ELSE LET refs == SelectSeq(DataRefsFrom(insn.ea),
                             LAMBDA ref :
                               LET b == read_bytes_at(ref, MAX_BYTES_FEATURE_SIZE)
                               IN  b # <<>> /\ ~all_zeros(b))
       IN  [k \in DOMAIN refs |->
              Yield(Bytes(read_bytes_at(refs[k], MAX_BYTES_FEATURE_SIZE)), insn.ea)]

extract_insn_string_features(f, bb, insn) ==
  LET refs == SelectSeq(DataRefsFrom(insn.ea),
                        LAMBDA ref : find_string_at(ref) # None /\ find_string_at(ref)[1] # <<>>)
  IN  [k \in DOMAIN refs |-> Yield(String(find_string_at(refs[k])[1]), insn.ea)]

\* extract_insn_offset_features decoding a negative displacement as one's complement
extract_insn_offset_features_ones_complement(f, bb, insn) ==
  LET ops == SelectSeq(get_insn_ops(insn, {"o_phrase", "o_displ"}),
                       LAMBDA op : /\ ~is_op_stack_var(insn, op)
                                   /\ ~is_mapped_u32(get_offset(get_op_phrase_info(op))))
      decode(val) == IF val[1] >= 32768
                     THEN (val[1] - 65536) * 65536 + val[2] + 1
                     ELSE val[1] * 65536 + val[2]
  IN  [k \in DOMAIN ops |->
         Yield(Offset(decode(get_offset(get_op_phrase_info(ops[k])))), insn.ea)]

\* extract_insn_offset_features without the stack variable test
extract_insn_offset_features_no_stack_var_test(f, bb, insn) ==
  LET ops == SelectSeq(get_insn_ops(insn, {"o_phrase", "o_displ"}),
                       LAMBDA op : ~is_mapped_u32(get_offset(get_op_phrase_info(op))))
  IN  [k \in DOMAIN ops |->
         Yield(Offset(twos_complement(get_offset(get_op_phrase_info(ops[k])), 32)), insn.ea)]

extract_insn_offset_features(f, bb, insn) ==
  LET ops == SelectSeq(get_insn_ops(insn, {"o_phrase", "o_displ"}),
                       LAMBDA op : /\ ~is_op_stack_var(insn, op)
                                   /\ ~is_mapped_u32(get_offset(get_op_phrase_info(op))))
  IN  [k \in DOMAIN ops |->
         Yield(Offset(twos_complement(get_offset(get_op_phrase_info(ops[k])), 32)), insn.ea)]

\* contains_stack_cookie_keywords without .lower()
contains_stack_cookie_keywords_case_sensitive(s) ==
  IF s = None \/ s[1] = <<>> THEN FALSE
  ELSE LET t == strip(s[1]) IN
       IF ~Contains(t, kw_cookie) THEN FALSE
       ELSE \E keyword \in {kw_stack, kw_security} : Contains(t, keyword)

contains_stack_cookie_keywords(s) ==
  IF s = None \/ s[1] = <<>> THEN FALSE
  ELSE LET t == lower(strip(s[1])) IN
       IF ~Contains(t, kw_cookie) THEN FALSE
       ELSE \E keyword \in {kw_stack, kw_security} : Contains(t, keyword)

\* the registers written by the block's instructions whose line names the cookie
bb_stack_cookie_registers(bb) ==
  LET insns == get_instructions_in_range(bb.start_ea, bb.end_ea)
      regs_of(insn) ==
        IF contains_stack_cookie_keywords(Some(GetDisasm(insn)))
        THEN LET ops == SelectSeq(get_insn_ops(insn, {"o_reg"}),
                                  LAMBDA op : is_op_write(insn, op))
             IN  [k \in DOMAIN ops |-> ops[k].reg]
        ELSE <<>>
  IN  Flatten([k \in DOMAIN insns |-> regs_of(insns[k])])

\* is_nzxor_stack_cookie looking at the first operand only
is_nzxor_stack_cookie_op1_only(f, bb, insn) ==
  IF contains_stack_cookie_keywords(get_cmt(insn)) THEN TRUE
  ELSE LET stack_cookie_regs == bb_stack_cookie_registers(bb) IN
       \E k \in DOMAIN stack_cookie_regs : stack_cookie_regs[k] = Op(insn, 1).reg

\* is_nzxor_stack_cookie scanning only the instructions before the xor
is_nzxor_stack_cookie_earlier_only(f, bb, insn) ==
  IF contains_stack_cookie_keywords(get_cmt(insn)) THEN TRUE
  ELSE LET stack_cookie_regs ==
             bb_stack_cookie_registers([start_ea |-> bb.start_ea, end_ea |-> insn.ea])
       IN  \E op_reg \in {Op(insn, 1).reg, Op(insn, 2).reg} :
             \E k \in DOMAIN stack_cookie_regs : stack_cookie_regs[k] = op_reg

is_nzxor_stack_cookie(f, bb, insn) ==
  IF contains_stack_cookie_keywords(get_cmt(insn)) THEN TRUE
  ELSE LET stack_cookie_regs == bb_stack_cookie_registers(bb) IN
       IF \E op_reg \in {Op(insn, 1).reg, Op(insn, 2).reg} :
            \E k \in DOMAIN stack_cookie_regs : stack_cookie_regs[k] = op_reg
       THEN TRUE
       ELSE FALSE

\* extract_insn_nzxor_characteristic_features without the same-operand test
extract_insn_nzxor_characteristic_features_no_equal_test(f, bb, insn) ==
  IF insn.mnem # "xor" THEN <<>>
  ELSE IF is_nzxor_stack_cookie(f, bb, insn) THEN <<>>
  ELSE << Yield(Characteristic("nzxor"), insn.ea) >>

extract_insn_nzxor_characteristic_features(f, bb, insn) ==
  IF insn.mnem # "xor" THEN <<>>
  ELSE IF is_operand_equal(Op(insn, 1), Op(insn, 2)) THEN <<>>
  ELSE IF is_nzxor_stack_cookie(f, bb, insn) THEN <<>>
  ELSE << Yield(Characteristic("nzxor"), insn.ea) >>

extract_insn_mnemonic_features(f, bb, insn) ==
  << Yield(Mnemonic(insn.mnem), insn.ea) >>

extract_insn_peb_access_characteristic_features(f, bb, insn) ==
  IF insn.mnem \notin {"push", "mov"} THEN <<>>
  ELSE IF \A k \in DOMAIN insn.ops : insn.ops[k].type # "o_mem" THEN <<>>
  ELSE LET disasm == GetDisasm(insn) IN
       IF Contains(disasm, pat_fs30) \/ Contains(disasm, pat_gs60)
       THEN << Yield(Characteristic("peb access"), insn.ea) >>
       ELSE <<>>

extract_insn_segment_access_features(f, bb, insn) ==
  IF \A k \in DOMAIN insn.ops : insn.ops[k].type # "o_mem" THEN <<>>
  ELSE LET disasm == GetDisasm(insn) IN
       (IF Contains(disasm, pat_fs)
        THEN << Yield(Characteristic("fs access"), insn.ea) >> ELSE <<>>)
       \o (IF Contains(disasm, pat_gs)
           THEN << Yield(Characteristic("gs access"), insn.ea) >> ELSE <<>>)

\* extract_insn_cross_section_cflow without the test for a target in no section
extract_insn_cross_section_cflow_no_seg_test(f, bb, insn) ==
  LET refs == SelectSeq(CodeRefsFrom(insn.ea),
                        LAMBDA ref : /\ ref \notin keys(get_imports.ret.map)
                                     /\ getseg(ref) # getseg(insn.ea))
  IN  [k \in DOMAIN refs |-> Yield(Characteristic("cross section flow"), insn.ea)]

extract_insn_cross_section_cflow(f, bb, insn) ==
  LET refs == SelectSeq(CodeRefsFrom(insn.ea),
                        LAMBDA ref : /\ ref \notin keys(get_imports.ret.map)
                                     /\ getseg(ref) # NoSeg
                                     /\ getseg(ref) # getseg(insn.ea))
  IN  [k \in DOMAIN refs |-> Yield(Characteristic("cross section flow"), insn.ea)]

\* extract_function_calls_from tagging the call site instead of the target
extract_function_calls_from_at_call_site(f, bb, insn) ==
  IF insn.is_call
  THEN LET refs == CodeRefsFrom(insn.ea)
       IN  [k \in DOMAIN refs |-> Yield(Characteristic("calls from"), insn.ea)]
  ELSE <<>>

extract_function_calls_from(f, bb, insn) ==
  IF insn.is_call
  THEN LET refs == CodeRefsFrom(insn.ea)
       IN  [k \in DOMAIN refs |-> Yield(Characteristic("calls from"), refs[k])]
  ELSE <<>>

\* extract_function_indirect_call_characteristic_features without the call test
extract_function_indirect_call_characteristic_features_any_insn(f, bb, insn) ==
  IF get_operand_type(insn, 0) \in {"o_reg", "o_phrase", "o_displ"}
  THEN << Yield(Characteristic("indirect call"), insn.ea) >>
  ELSE <<>>

extract_function_indirect_call_characteristic_features(f, bb, insn) ==
  IF insn.is_call /\ get_operand_type(insn, 0) \in {"o_reg", "o_phrase", "o_displ"}
  THEN << Yield(Characteristic("indirect call"), insn.ea) >>
  ELSE <<>>

\* extract_features: the handlers of INSTRUCTION_HANDLERS in their order
extract_features(f, bb, insn) ==
     extract_insn_api_features(f, bb, insn)
  \o extract_insn_number_features(f, bb, insn)
  \o extract_insn_bytes_features(f, bb, insn)
  \o extract_insn_string_features(f, bb, insn)
  \o extract_insn_offset_features(f, bb, insn)
  \o extract_insn_nzxor_characteristic_features(f, bb, insn)
  \o extract_insn_mnemonic_features(f, bb, insn)
  \o extract_insn_peb_access_characteristic_features(f, bb, insn)
  \o extract_insn_cross_section_cflow(f, bb, insn)
  \o extract_insn_segment_access_features(f, bb, insn)
  \o extract_function_calls_from(f, bb, insn)
  \o extract_function_indirect_call_characteristic_features(f, bb, insn)

\* the calls of get_imports() the handlers make for one instruction
count_get_imports(insn) ==
  LET refs == CodeRefsFrom(insn.ea)
      per_ref(ref) ==
        IF get(get_imports.ret.map, ref) # <<>> THEN 1
        ELSE LET f == get_func(ref) IN
             IF f # NoFunc /\ f.thunk THEN 1 + Len(DataRefsFrom(ref)) ELSE 1
      RECURSIVE sum(_)
      sum(s) == IF s = <<>> THEN 0 ELSE per_ref(Head(s)) + sum(Tail(s))
  IN  (IF insn.is_call THEN sum(refs) ELSE 0) + Len(refs)

(***************************************************************************)
(* main(): the walk over every function, basic block and instruction.      *)
(***************************************************************************)
\* the (f, bb, insn) triples in the order main() visits them
WalkList ==
  LET fs == get_functions(TRUE, TRUE)
      of_bb(f, bb) ==
        LET insns == get_instructions_in_range(bb.start_ea, bb.end_ea)
        IN  [k \in DOMAIN insns |-> [f |-> f, bb |-> bb, insn |-> insns[k]]]
      of_f(f) ==
        LET bbs == FlowChart(f) IN Flatten([k \in DOMAIN bbs |-> of_bb(f, bbs[k])])
  IN  Flatten([k \in DOMAIN fs |-> of_f(fs[k])])

\* blocks of at most MaxInsns instructions, at most one from outside Context
Programs ==
  { [insns |-> s, split |-> k] :
      s \in { t \in UNION { [1..n -> Universe] : n \in 1..MaxInsns } :
                Cardinality({i \in DOMAIN t : t[i] \notin Context}) <= 1 },
      k \in 1..MaxInsns } 

\* bulk-process.py is not running
NoBatch == [mapper |-> "map", samples |-> <<>>, computed |-> <<>>, next |-> 1,
            results |-> {}, warnings |-> <<>>, pc |-> "idle"]

Init ==
  /\ prog \in { p \in Programs : p.split <= Len(p.insns) }
  /\ file_imports \in ImportViews
  /\ imports_changed = FALSE
  /\ _file_imports_cache = None
  /\ get_file_imports_calls = 0
  /\ get_imports_calls = 0
  /\ run = 1
  /\ pos = 1
  /\ features = << <<>> >>
  /\ batch = NoBatch
  /\ keyword_test = None
  /\ workers = None

\* one iteration of main()'s innermost loop:
\*   features.extend(list(extract_features(f, bb, insn)))
Step ==
  LET walk == WalkList IN
  /\ pos <= Len(walk)
  /\ LET w == walk[pos]
         yielded == extract_features(w.f, w.bb, w.insn)
         n == count_get_imports(w.insn)
     IN  /\ features' = [features EXCEPT ![run] = Append(@, yielded)]
         /\ get_imports_calls' = get_imports_calls + n
         /\ IF n > 0
            THEN /\ _file_imports_cache' = get_imports.cache
                 /\ get_file_imports_calls' =
                      IF get_imports.cache # _file_imports_cache
                      THEN get_file_imports_calls + 1 ELSE get_file_imports_calls
            ELSE UNCHANGED <<_file_imports_cache, get_file_imports_calls>>
  /\ pos' = pos + 1
  /\ UNCHANGED <<prog, file_imports, imports_changed, run, batch,
                 keyword_test, workers>>

\* main() is run again in the same interpreter: the module global survives
RunAgain ==
  /\ pos > Len(WalkList)
  /\ run < MaxRuns
  /\ run' = run + 1
  /\ pos' = 1
  /\ features' = Append(features, <<>>)
  /\ UNCHANGED <<prog, file_imports, imports_changed, _file_imports_cache,
                 get_file_imports_calls, get_imports_calls, batch,
                 keyword_test, workers>>

\* the backend's import view changes (the database is re-analysed)
BackendChange ==
  /\ \E v \in ImportViews \ {file_imports} : file_imports' = v
  /\ imports_changed' = TRUE
  /\ UNCHANGED <<prog, _file_imports_cache, get_file_imports_calls, get_imports_calls,
                 run, pos, features, batch,
                 keyword_test, workers>>

Next == Step \/ RunAgain \/ BackendChange

Spec == Init /\ [][Next]_vars

(***************************************************************************)
(* One walk over a block of instructions around the stack cookie.          *)
(***************************************************************************)
\* instructions of a cookie block
MaxCookieInsns == 3

\* the cookie load, a comparison that only reads the cookie register, a plain
\* write of that register, an xor on it and an xor with a constant
CookieUniverse == {"mov_cookie", "cmp_cookie", "mov_phrase", "xor_edi_eax", "xor_ecx_imm"}

InitCookie ==
  /\ \E n \in 1..MaxCookieInsns :
       \E s \in [1..n -> CookieUniverse] :
         \E k \in 1..n : prog = [insns |-> s, split |-> k]
  /\ file_imports = ImportsFull
  /\ imports_changed = FALSE
  /\ _file_imports_cache = None
  /\ get_file_imports_calls = 0
  /\ get_imports_calls = 0
  /\ run = 1
  /\ pos = 1
  /\ features = << <<>> >>
  /\ batch = NoBatch
  /\ keyword_test = None
  /\ workers = None

SpecCookie == InitCookie /\ [][Step]_vars

(***************************************************************************)
(* scripts/bulk-process.py: one get_capa_results per sample, and main()'s   *)
(* loop over the mapper's results.                                         *)
(***************************************************************************)
\* samples of the input directory
MaxSamples == 2

\* what goes wrong for a sample, and where
Faults == {"none", "UnsupportedFormatError", "UnsupportedRuntimeError",
           "get_extractor Exception", "collect_metadata Exception",
           "find_capabilities Exception"}

\* the value of a get_capa_results call: a record returned, or an exception raised
Returned(path, status, error, ok) ==
  [raised |-> FALSE, path |-> path, status |-> status, error |-> error, ok |-> ok]
Raised(path) ==
  [raised |-> TRUE, path |-> path, status |-> "", error |-> "", ok |-> <<>>]

get_capa_results(path, fault) ==
  CASE fault = "UnsupportedFormatError" ->
         Returned(path, "error", "input file does not appear to be a PE file", <<>>)
    [] fault = "UnsupportedRuntimeError" ->
         Returned(path, "error", "unsupported runtime or Python interpreter", <<>>)
    [] fault = "get_extractor Exception" ->
         Returned(path, "error", "unexpected error", <<>>)
    [] fault = "collect_metadata Exception" -> Raised(path)
    [] fault = "find_capabilities Exception" -> Raised(path)
    [] OTHER -> Returned(path, "ok", "", <<[meta |-> path, capabilities |-> path]>>)

Mappers == {"map", "tmap", "pmap"}

BatchInit ==
  /\ prog = [insns |-> <<"retn">>, split |-> 1]
  /\ file_imports = ImportsFull
  /\ imports_changed = FALSE
  /\ _file_imports_cache = None
  /\ get_file_imports_calls = 0
  /\ get_imports_calls = 0
  /\ run = 1
  /\ pos = 1
  /\ features = << <<>> >>
  /\ keyword_test = None
  /\ workers = None
  /\ \E n \in 0..MaxSamples :
       \E samples \in [1..n -> Faults] :
         \E mapper \in Mappers :
           batch = [mapper |-> mapper, samples |-> samples,
                    computed |-> [i \in 1..n |-> None], next |-> 1,
                    results |-> {}, warnings |-> <<>>, pc |-> "loop"]

\* a pool worker runs get_capa_results for one sample
Work(i) ==
  /\ batch.pc = "loop"
  /\ batch.mapper \in {"tmap", "pmap"}
  /\ batch.computed[i] = None
  /\ batch' = [batch EXCEPT !.computed[i] = Some(get_capa_results(i, batch.samples[i]))]
  /\ UNCHANGED <<ext_vars, keyword_test, workers>>

\* one iteration of main()'s loop over the mapper's results
Consume ==
  /\ batch.pc = "loop"
  /\ batch.next <= Len(batch.samples)
  /\ batch.mapper # "map" => batch.computed[batch.next] # None
  /\ LET i == batch.next
         result == IF batch.mapper = "map"
                   THEN get_capa_results(i, batch.samples[i])
                   ELSE batch.computed[i][1]
     IN  batch' =
           IF result.raised
           THEN [batch EXCEPT !.computed[i] = Some(result), !.pc = "raised"]
           ELSE IF result.status = "error"
           THEN [batch EXCEPT !.computed[i] = Some(result), !.next = i + 1,
                              !.warnings = Append(@, result.error)]
           ELSE IF result.status = "ok"
           THEN [batch EXCEPT !.computed[i] = Some(result), !.next = i + 1,
                              !.results = @ \cup {[path |-> result.path,
                                                   doc |-> result.ok[1]]}]
           ELSE [batch EXCEPT !.pc = "raised"]
  /\ UNCHANGED <<ext_vars, keyword_test, workers>>

\* print(json.dumps(results)); return 0
Finish ==
  /\ batch.pc = "loop"
  /\ batch.next > Len(batch.samples)
  /\ batch' = [batch EXCEPT !.pc = "done"]
  /\ UNCHANGED <<ext_vars, keyword_test, workers>>

BatchNext == (\E i \in 1..MaxSamples : i <= Len(batch.samples) /\ Work(i)) \/ Consume \/ Finish

SpecBatch == BatchInit /\ [][BatchNext]_vars

(***************************************************************************)
(* contains_stack_cookie_keywords on its own: one call with an argument    *)
(* drawn from short texts.                                                 *)
(***************************************************************************)
\* words a text is put together from
MaxTokens == 3

KeywordTokens ==
  { kw_cookie, <<"C","O","O","K","I","E">>, <<"c","o","o","k">>,
    <<"S","t","a","c","k">>, kw_security, <<" ">>, <<"_">> }

\* the arguments: None, or a text of at most MaxTokens words
KeywordInputs ==
  {None} \cup
  { Some(Flatten(t)) : t \in UNION { [1..n -> KeywordTokens] : n \in 0..MaxTokens } }

InitKeywords ==
  /\ prog = [insns |-> <<"retn">>, split |-> 1]
  /\ file_imports = ImportsFull
  /\ imports_changed = FALSE
  /\ _file_imports_cache = None
  /\ get_file_imports_calls = 0
  /\ get_imports_calls = 0
  /\ run = 1
  /\ pos = 1
  /\ features = << <<>> >>
  /\ batch = NoBatch
  /\ workers = None
  /\ \E s \in KeywordInputs : keyword_test = [s |-> s, called |-> FALSE, ret |-> FALSE]

\* the call contains_stack_cookie_keywords(s)
CallKeywords ==
  /\ ~keyword_test.called
  /\ keyword_test' = [keyword_test EXCEPT !.called = TRUE,
                                          !.ret = contains_stack_cookie_keywords(keyword_test.s)]
  /\ UNCHANGED <<ext_vars, batch, workers>>

SpecKeywords == InitKeywords /\ [][CallKeywords]_vars

(***************************************************************************)
(* get_imports() called by several workers: threads of one interpreter     *)
(* share the module global, processes have one each.  A call is four       *)
(* steps: test the global, query the backend, store, read for the return.  *)
(***************************************************************************)
MaxWorkers == 2
\* calls of get_imports() each worker makes
MaxCalls == 2

\* the module global worker w sees
GlobalOf(w) == IF workers.shared THEN _file_imports_cache ELSE workers.own[w]

InitWorkers ==
  /\ prog = [insns |-> <<"retn">>, split |-> 1]
  /\ file_imports = ImportsFull
  /\ imports_changed = FALSE
  /\ _file_imports_cache = None
  /\ get_file_imports_calls = 0
  /\ get_imports_calls = 0
  /\ run = 1
  /\ pos = 1
  /\ features = << <<>> >>
  /\ batch = NoBatch
  /\ keyword_test = None
  /\ \E n \in 1..MaxWorkers :
       \E shared \in BOOLEAN :
         workers = [shared |-> shared,
                    pc |-> [w \in 1..n |-> "idle"],
                    own |-> [w \in 1..n |-> None],
                    tmp |-> [w \in 1..n |-> None],
                    builds |-> [w \in 1..n |-> 0],
                    ret |-> [w \in 1..n |-> <<>>]]

\* get_imports() always querying the backend
GetImportsTest_always_builds(w) ==
  /\ workers.pc[w] = "idle"
  /\ Len(workers.ret[w]) < MaxCalls
  /\ workers' = [workers EXCEPT !.pc[w] = "build"]
  /\ get_imports_calls' = get_imports_calls + 1
  /\ UNCHANGED <<prog, file_imports, imports_changed, _file_imports_cache,
                 get_file_imports_calls, run, pos, features, batch, keyword_test>>

\* if _file_imports_cache is None:
GetImportsTest(w) ==
  /\ workers.pc[w] = "idle"
  /\ Len(workers.ret[w]) < MaxCalls
  /\ workers' = [workers EXCEPT !.pc[w] = IF GlobalOf(w) = None THEN "build" ELSE "return"]
  /\ get_imports_calls' = get_imports_calls + 1
  /\ UNCHANGED <<prog, file_imports, imports_changed, _file_imports_cache,
                 get_file_imports_calls, run, pos, features, batch, keyword_test>>

\* capa.features.extractors.ida.helpers.get_file_imports()
GetImportsBuild(w) ==
  /\ workers.pc[w] = "build"
  /\ workers' = [workers EXCEPT !.pc[w] = "store", !.tmp[w] = Some(get_file_imports),
                                !.builds[w] = @ + 1]
  /\ get_file_imports_calls' = get_file_imports_calls + 1
  /\ UNCHANGED <<prog, file_imports, imports_changed, _file_imports_cache,
                 get_imports_calls, run, pos, features, batch, keyword_test>>

\* _file_imports_cache = <the mapping built>
GetImportsStore(w) ==
  /\ workers.pc[w] = "store"
  /\ IF workers.shared
     THEN /\ _file_imports_cache' = workers.tmp[w]
          /\ workers' = [workers EXCEPT !.pc[w] = "return", !.tmp[w] = None]
     ELSE /\ workers' = [workers EXCEPT !.pc[w] = "return", !.tmp[w] = None,
                                        !.own[w] = workers.tmp[w]]
          /\ UNCHANGED _file_imports_cache
  /\ UNCHANGED <<prog, file_imports, imports_changed, get_file_imports_calls,
                 get_imports_calls, run, pos, features, batch, keyword_test>>

\* return _file_imports_cache
GetImportsReturn(w) ==
  /\ workers.pc[w] = "return"
  /\ workers' = [workers EXCEPT !.pc[w] = "idle", !.ret[w] = Append(@, GlobalOf(w)[1])]
  /\ UNCHANGED <<prog, file_imports, imports_changed, _file_imports_cache,
                 get_file_imports_calls, get_imports_calls, run, pos, features, batch,
                 keyword_test>>

NextWorkers ==
  \/ \E w \in DOMAIN workers.pc : GetImportsTest(w)
  \/ \E w \in DOMAIN workers.pc : GetImportsBuild(w)
  \/ \E w \in DOMAIN workers.pc : GetImportsStore(w)
  \/ \E w \in DOMAIN workers.pc : GetImportsReturn(w)

SpecWorkers == InitWorkers /\ [][NextWorkers]_vars

(***************************************************************************)
(* Properties.                                                             *)
(***************************************************************************)
\* the walk has processed an instruction in the current run
Processed == pos > 1
\* the (f, bb, insn) processed last, and what was yielded for it
Last == WalkList[pos - 1]
LastOut == features[run][pos - 1]

OfKind(s, kind) == SelectSeq(s, LAMBDA y : y.feature.kind = kind)
WithTag(s, tag) == SelectSeq(s, LAMBDA y : y.feature.kind = "Characteristic" /\ y.feature.tag = tag)

\* the immediate operands whose value is not a mapped address
UnmappedImms(insn) ==
  SelectSeq(insn.ops, LAMBDA op : op.type = "o_imm" /\ ~is_mapped(op.value))

\* C1 as stated: every instruction that is neither a call nor a return and has an
\* immediate operand whose value is not a mapped address yields Number(value) at
\* the instruction's address.
C1_NumberForEveryNonCallNonReturn ==
  Processed =>
    LET insn == Last.insn
        imms == UnmappedImms(insn)
        nums == OfKind(LastOut, "Number")
    IN  (~insn.is_call /\ ~insn.is_ret) =>
          \A k \in DOMAIN imms :
            \E j \in DOMAIN nums : nums[j] = Yield(Number(imms[k].value), insn.ea)

\* C1 amended: every instruction that is neither a call nor a return, and that
\* does not modify the stack pointer, yields for its immediate operands whose
\* value is not a mapped address exactly Number(value) at its own address.
C1_NumberForNonCallNonReturnNonSp ==
  Processed =>
    LET insn == Last.insn
        imms == UnmappedImms(insn)
    IN  (~insn.is_call /\ ~insn.is_ret /\ ~insn.sp_mod) =>
          OfKind(LastOut, "Number") =
            [k \in DOMAIN imms |-> Yield(Number(imms[k].value), insn.ea)]

\* a push of an unmapped constant has yielded its Number
C1_Witness ==
  /\ Processed
  /\ LET insn == Last.insn
     IN  /\ ~insn.is_call /\ ~insn.is_ret /\ ~insn.sp_mod
         /\ UnmappedImms(insn) # <<>>
         /\ OfKind(LastOut, "Number") # <<>>

\* C2: a return instruction, or an instruction that modifies the stack pointer,
\* yields no Number feature, whatever its operands are.
C2_NoNumberForRetOrSp ==
  Processed =>
    LET insn == Last.insn
    IN  (insn.is_ret \/ insn.sp_mod) => OfKind(LastOut, "Number") = <<>>

\* `retn 8` was processed: a return whose immediate is not a mapped address
C2_Witness ==
  /\ Processed
  /\ LET insn == Last.insn
     IN  /\ insn.is_ret
         /\ UnmappedImms(insn) # <<>>
         /\ OfKind(LastOut, "Number") = <<>>

\* C3: an instruction yields Characteristic("nzxor"), once and at its own address,
\* if and only if it is an xor whose two operands are not identical and which is
\* not classified as cookie-related; otherwise it yields none.
C3_NzxorIff ==
  Processed =>
    LET w == Last
        insn == w.insn
        expected == /\ insn.mnem = "xor"
                    /\ ~is_operand_equal(Op(insn, 1), Op(insn, 2))
                    /\ ~is_nzxor_stack_cookie(w.f, w.bb, insn)
    IN  WithTag(LastOut, "nzxor") =
          (IF expected THEN << Yield(Characteristic("nzxor"), insn.ea) >> ELSE <<>>)

\* an xor of two different registers outside any cookie context yielded nzxor
C3_Witness ==
  /\ Processed
  /\ LET insn == Last.insn
     IN  /\ insn.mnem = "xor"
         /\ Op(insn, 1).reg # Op(insn, 2).reg
         /\ WithTag(LastOut, "nzxor") # <<>>

\* an earlier instruction of the block bb whose line contains "security cookie"
\* writes register r
CookieWrittenBefore(bb, insn, r) ==
  LET insns == get_instructions_in_range(bb.start_ea, bb.end_ea) IN
  \E k \in DOMAIN insns :
    /\ insns[k].ea < insn.ea
    /\ Contains(GetDisasm(insns[k]), cmt_security_cookie)
    /\ \E n \in DOMAIN insns[k].ops :
         /\ insns[k].ops[n].type = "o_reg"
         /\ insns[k].ops[n].write
         /\ insns[k].ops[n].reg = r

\* the registers among the two operands of an xor
XorRegs(insn) == {Op(insn, n).reg : n \in {n \in 1..2 : Op(insn, n).type = "o_reg"}}

\* C4: when an instruction whose line contains "security cookie" writes register
\* R, every later xor of the same block with R among its two register operands is
\* classified as cookie-related and yields no nzxor.
C4_CookieXorSuppressed ==
  Processed =>
    LET w == Last
        insn == w.insn
    IN  (insn.mnem = "xor"
         /\ \E r \in XorRegs(insn) : CookieWrittenBefore(w.bb, insn, r)) =>
          /\ is_nzxor_stack_cookie(w.f, w.bb, insn)
          /\ WithTag(LastOut, "nzxor") = <<>>

\* `xor edi, eax` was processed after a commented cookie load into eax
C4_Witness ==
  /\ Processed
  /\ LET w == Last
         insn == w.insn
     IN  /\ insn.mnem = "xor"
         /\ ~is_operand_equal(Op(insn, 1), Op(insn, 2))
         /\ get_cmt(insn) = None
         /\ \E r \in XorRegs(insn) : CookieWrittenBefore(w.bb, insn, r)
         /\ WithTag(LastOut, "nzxor") = <<>>

\* the memory operands the Offset extractor takes: not a stack variable, the
\* displacement (0 when there is none) not a mapped address
RawDisplacement(op) == IF op.has_off THEN op.addr ELSE U32(0, 0)
EligibleMemOps(insn) ==
  SelectSeq(insn.ops,
            LAMBDA op : /\ op.type \in {"o_phrase", "o_displ"}
                        /\ ~op.stkvar
                        /\ ~is_mapped_u32(RawDisplacement(op)))

KnownImports == IF _file_imports_cache = None THEN {} ELSE _file_imports_cache[1].map

\* the qualified names ("module.symbol") among the API features yielded
QualifiedApis(s) == SelectSeq(OfKind(s, "API"), LAMBDA y : Contains(y.feature.txt, s_dot))

\* C6: a call whose code reference is not an import but a thunk function, with
\* exactly one known import address among the data references from the thunk,
\* resolves to that import's "module.symbol" and to nothing else.
C6_ThunkResolves ==
  Processed =>
    LET insn == Last.insn IN
    \A ref \in {insn.crefs[k] : k \in DOMAIN insn.crefs} :
      LET drefs == ThunkDataRefs(ref)
          hits == {k \in DOMAIN drefs : drefs[k] \in keys(KnownImports)}
      IN  (/\ insn.is_call
           /\ Len(insn.crefs) = 1
           /\ ref \notin keys(KnownImports)
           /\ get_func(ref).thunk
           /\ Cardinality(hits) = 1) =>
            LET info == get(KnownImports, drefs[CHOOSE k \in hits : TRUE])
            IN  QualifiedApis(LastOut) =
                  << Yield(API(info[1] \o s_dot \o info[2]), insn.ea) >>

\* a call to a thunk was resolved to the import the thunk refers to
C6_Witness ==
  /\ Processed
  /\ LET insn == Last.insn
     IN  /\ insn.is_call
         /\ Len(insn.crefs) = 1
         /\ get_func(insn.crefs[1]).thunk
         /\ insn.crefs[1] \notin keys(KnownImports)
         /\ QualifiedApis(LastOut) # <<>>

\* C7: an instruction yields Characteristic("indirect call"), once and at its own
\* address, if and only if it is a call whose first operand is a register, a
\* memory phrase or a memory displacement.
C7_IndirectCallIff ==
  Processed =>
    LET insn == Last.insn
        expected == /\ insn.is_call
                    /\ Len(insn.ops) >= 1
                    /\ insn.ops[1].type \in {"o_reg", "o_phrase", "o_displ"}
    IN  WithTag(LastOut, "indirect call") =
          (IF expected THEN << Yield(Characteristic("indirect call"), insn.ea) >> ELSE <<>>)

\* `call eax` yielded the characteristic
C7_Witness ==
  /\ Processed
  /\ LET insn == Last.insn
     IN  /\ insn.is_call
         /\ insn.ops[1].type = "o_reg"
         /\ WithTag(LastOut, "indirect call") # <<>>

\* walk r of main() has finished
Finished(r) == r < run \/ (r = run /\ pos > Len(WalkList))

\* the list main() built in walk r, as a multiset of (feature, ea) pairs
FeatureBag(r) == SeqToBag(Flatten(features[r]))

\* C8: two finished walks over the same unchanged backend state built the same
\* multiset of (Feature, Address) pairs, also when the first built the cache.
C8_WalkIdempotent ==
  ~imports_changed =>
    \A r1, r2 \in 1..run :
      (r1 < r2 /\ Finished(r2)) => FeatureBag(r1) = FeatureBag(r2)

\* two walks finished over an unchanged backend; the first built the cache and
\* resolved an API through it
C8_Witness ==
  /\ ~imports_changed
  /\ run >= 2 /\ Finished(2)
  /\ get_file_imports_calls = 1
  /\ OfKind(Flatten(features[1]), "API") # <<>>

\* C9: the backend's import query is made by the first get_imports call and by
\* no other, and once built the cached mapping object is never replaced, whatever
\* the backend reports later and also when the mapping built is empty.
C9_BuiltOnce ==
  /\ [](/\ get_file_imports_calls = (IF get_imports_calls > 0 THEN 1 ELSE 0)
        /\ (get_imports_calls > 0) = (_file_imports_cache # None))
  /\ [][_file_imports_cache # None => _file_imports_cache' = _file_imports_cache]_vars

\* get_imports was called again after an empty first build and a change of the
\* backend's view
C9_Witness ==
  /\ _file_imports_cache # None
  /\ _file_imports_cache[1].map = {}
  /\ file_imports # {}
  /\ get_imports_calls >= 2
  /\ get_file_imports_calls = 1
  /\ Processed /\ Last.insn.is_call

\* C10 as stated: every get_capa_results call returns a record tagged "error" or
\* "ok", no failure of a sample propagates, and main()'s loop is never aborted.
C10_FailureIsolated ==
  /\ batch.pc # "raised"
  /\ \A i \in DOMAIN batch.computed :
       batch.computed[i] # None =>
         /\ ~batch.computed[i][1].raised
         /\ batch.computed[i][1].status \in {"error", "ok"}

\* C11 as stated: the document main() prints has one entry for each input file,
\* an error record for a sample that failed and a success record for one that
\* succeeded; no input file is missing from it.
C11_OneEntryPerInput ==
  batch.pc = "done" =>
    \A i \in DOMAIN batch.samples :
      \E e \in batch.results : e.path = i

\* C12: for a call instruction the Characteristic("calls from") features yielded
\* are exactly one per code reference from it, each tagged at the referenced
\* target address (the call site's own address only when the target equals it);
\* an instruction that is not a call yields none.
C12_CallsFromAtTarget ==
  Processed =>
    LET insn == Last.insn
    IN  WithTag(LastOut, "calls from") =
          (IF insn.is_call
           THEN [k \in DOMAIN insn.crefs |->
                   Yield(Characteristic("calls from"), insn.crefs[k])]
           ELSE <<>>)

\* a call to another function yielded "calls from" at the target, not at the call
C12_Witness ==
  /\ Processed
  /\ LET insn == Last.insn
         out == WithTag(LastOut, "calls from")
     IN  /\ insn.is_call
         /\ Len(insn.crefs) = 1
         /\ insn.crefs[1] # insn.ea
         /\ Len(out) = 1
         /\ out[1].ea = insn.crefs[1]

\* C13: a non-call yields no API feature; a call whose code reference is a known
\* import yields that import alone, also when the reference is a thunk entry; a
\* call whose reference is no import and is a thunk none of whose data references
\* is an import, a non-thunk function or no function yields no API feature.
C13_OneLevelOnly ==
  Processed =>
    LET insn == Last.insn
        apis == OfKind(LastOut, "API")
        imports == KnownImports
    IN  /\ ~insn.is_call => apis = <<>>
        /\ (insn.is_call /\ insn.crefs = <<>>) => apis = <<>>
        /\ (insn.is_call /\ Len(insn.crefs) = 1) =>
             LET ref == insn.crefs[1]
                 f == get_func(ref)
                 drefs == DataRefsFrom(ref)
             IN  /\ ref \in keys(imports) =>
                      /\ QualifiedApis(LastOut) =
                           << Yield(API(get(imports, ref)[1] \o s_dot \o get(imports, ref)[2]),
                                    insn.ea) >>
                      /\ Len(apis) = 2
                 /\ (/\ ref \notin keys(imports)
                     /\ \/ f = NoFunc
                        \/ ~f.thunk
                        \/ \A j \in DOMAIN drefs : drefs[j] \notin keys(imports)) =>
                      apis = <<>>

\* a call to a thunk that refers to a thunk that refers to an import yielded no API
C13_Witness ==
  /\ Processed
  /\ LET insn == Last.insn
     IN  /\ insn.is_call
         /\ Len(insn.crefs) = 1
         /\ get_func(insn.crefs[1]).thunk
         /\ \E j \in DOMAIN ThunkDataRefs(insn.crefs[1]) :
              LET r == ThunkDataRefs(insn.crefs[1])[j]
              IN  /\ get_func(r).thunk
                  /\ \E i \in DOMAIN ThunkDataRefs(r) :
                       ThunkDataRefs(r)[i] \in keys(KnownImports)
         /\ OfKind(LastOut, "API") = <<>>

\* text s contains word kw when letter case is ignored
ContainsIgnoringCase(s, kw) ==
  \E i \in 1..(Len(s) - Len(kw) + 1) :
    \A j \in 1..Len(kw) : lower_char(s[i + j - 1]) = lower_char(kw[j])

\* C14: contains_stack_cookie_keywords(s) returns true if and only if s is a
\* non-empty text that, letter case ignored, contains "cookie" and at least one
\* of "stack" and "security"; it returns false for None and for the empty text.
C14_KeywordTestIff ==
  keyword_test.called =>
    LET s == keyword_test.s
    IN  keyword_test.ret =
          (/\ s # None
           /\ s[1] # <<>>
           /\ ContainsIgnoringCase(s[1], kw_cookie)
           /\ \/ ContainsIgnoringCase(s[1], kw_stack)
              \/ ContainsIgnoringCase(s[1], kw_security))

\* the test returned true for a text that spells the keywords in another case
C14_Witness ==
  /\ keyword_test.called
  /\ keyword_test.ret
  /\ ~Contains(keyword_test.s[1], kw_cookie)
  /\ ~Contains(keyword_test.s[1], kw_security)

\* the section an address lies in, found without the backend's lookup
SectionOf(ea) == {i \in DOMAIN Segments : Segments[i].start <= ea /\ ea < Segments[i].end}

\* C15: the Characteristic("cross section flow") features an instruction yields
\* are one, at its own address, for each code reference from it whose target is
\* not a key of the import table, lies in a section, and lies in another section
\* than the instruction; a target in no section never counts.
C15_CrossSectionExactly ==
  Processed =>
    LET insn == Last.insn
        crossing == {k \in DOMAIN insn.crefs :
                       /\ insn.crefs[k] \notin keys(KnownImports)
                       /\ SectionOf(insn.crefs[k]) # {}
                       /\ SectionOf(insn.crefs[k]) # SectionOf(insn.ea)}
        out == WithTag(LastOut, "cross section flow")
    IN  /\ Len(out) = Cardinality(crossing)
        /\ \A k \in DOMAIN out : out[k].ea = insn.ea
        /\ (\A k \in DOMAIN insn.crefs : SectionOf(insn.crefs[k]) = {}) => out = <<>>

\* a jump into another section was flagged, and one to an address in no section
\* was not
C15_Witness ==
  /\ Processed
  /\ pos > 2
  /\ LET prev == WalkList[pos - 2].insn
         insn == Last.insn
     IN  /\ Len(prev.crefs) = 1 /\ Len(insn.crefs) = 1
         /\ SectionOf(prev.crefs[1]) = {}
         /\ features[run][pos - 2] # <<>>
         /\ WithTag(features[run][pos - 2], "cross section flow") = <<>>
         /\ SectionOf(insn.crefs[1]) \notin {{}, SectionOf(insn.ea)}
         /\ WithTag(LastOut, "cross section flow") # <<>>

\* the signed reading of a raw 32-bit displacement
Signed32(raw) ==
  IF raw[1] >= 32768 THEN (raw[1] - 65536) * 65536 + raw[2] ELSE raw[1] * 65536 + raw[2]

\* C16: the Offset features an instruction yields are one, at its own address,
\* for each memory-phrase or displacement operand that is not a stack variable
\* and whose displacement is not a mapped address, in operand order; a stack
\* variable or a mapped displacement yields none, and an operand without a
\* displacement yields Offset(0).
C16_OffsetForEligibleOperands ==
  Processed =>
    LET insn == Last.insn
        memops == SelectSeq(insn.ops, LAMBDA op : op.type \in {"o_phrase", "o_displ"})
        skipped(op) == op.stkvar \/ is_mapped_u32(RawDisplacement(op))
        kept == SelectSeq(memops, LAMBDA op : ~skipped(op))
        offs == OfKind(LastOut, "Offset")
    IN  /\ offs = [k \in DOMAIN kept |->
                     Yield(Offset(IF kept[k].has_off THEN Signed32(kept[k].addr) ELSE 0),
                           insn.ea)]
        /\ (\A k \in DOMAIN memops : skipped(memops[k])) => offs = <<>>

\* `cmp [esi+4], ebx`, not a stack variable, yielded Offset(4)
C16_Witness ==
  /\ Processed
  /\ LET insn == Last.insn
     IN  /\ insn.mnem = "cmp"
         /\ insn.ops[1].type = "o_displ" /\ ~insn.ops[1].stkvar
         /\ insn.ops[1].addr = U32(0, 4)
         /\ OfKind(LastOut, "Offset") = << Yield(Offset(4), insn.ea) >>

\* the first bytes stored at ea, at most MAX_BYTES_FEATURE_SIZE of them
DataAt(ea) ==
  [i \in 1..(IF Len(Memory(ea)) < MAX_BYTES_FEATURE_SIZE
             THEN Len(Memory(ea)) ELSE MAX_BYTES_FEATURE_SIZE) |-> Memory(ea)[i]]

\* C17: a call yields no Bytes feature; an instruction that is not a call yields,
\* for each of its data references in order, Bytes(data) at its own address, data
\* being the at most MAX_BYTES_FEATURE_SIZE bytes at the referenced address,
\* exactly when data is non-empty and not all zero.
C17_BytesForNonZeroData ==
  Processed =>
    LET insn == Last.insn
        refs == SelectSeq(insn.drefs,
                          LAMBDA ref : /\ DataAt(ref) # <<>>
                                       /\ \E i \in DOMAIN DataAt(ref) : DataAt(ref)[i] # 0)
        out == OfKind(LastOut, "Bytes")
    IN  /\ insn.is_call => out = <<>>
        /\ ~insn.is_call => out = [k \in DOMAIN refs |-> Yield(Bytes(DataAt(refs[k])), insn.ea)]
        /\ \A k \in DOMAIN out : Len(out[k].feature.bytes) \in 1..MAX_BYTES_FEATURE_SIZE

\* a push of the address of a data item longer than MAX_BYTES_FEATURE_SIZE
\* yielded its first MAX_BYTES_FEATURE_SIZE bytes
C17_Witness ==
  /\ Processed
  /\ LET insn == Last.insn
         out == OfKind(LastOut, "Bytes")
     IN  /\ ~insn.is_call
         /\ Len(insn.drefs) = 1
         /\ Len(Memory(insn.drefs[1])) > MAX_BYTES_FEATURE_SIZE
         /\ Len(out) = 1
         /\ Len(out[1].feature.bytes) = MAX_BYTES_FEATURE_SIZE

\* the instructions of block bb
BlockInsns(bb) == get_instructions_in_range(bb.start_ea, bb.end_ea)

\* instruction i names the cookie in its line and writes register r
WritesCookieTo(i, r) ==
  /\ contains_stack_cookie_keywords(Some(GetDisasm(i)))
  /\ \E n \in DOMAIN i.ops :
       i.ops[n].type = "o_reg" /\ i.ops[n].write /\ i.ops[n].reg = r

\* the registers tainted in block bb
TaintedIn(bb) ==
  {r \in 0..7 : \E k \in DOMAIN BlockInsns(bb) : WritesCookieTo(BlockInsns(bb)[k], r)}

\* C18: the registers bb_stack_cookie_registers collects for a block are those
\* written, as a register operand, by any instruction of that block matching the
\* keyword test, wherever it stands; an xor on such a register is cookie-related
\* and yields no nzxor, also when the write comes after the xor or the register
\* is overwritten in between; a register only read by a matching instruction, or
\* written only in another block, does not make an xor cookie-related.
C18_TaintIsBlockWide ==
  Processed =>
    LET w == Last
        insn == w.insn
        regs == bb_stack_cookie_registers(w.bb)
        tainted == TaintedIn(w.bb)
    IN  /\ {regs[k] : k \in DOMAIN regs} = tainted
        /\ (insn.mnem = "xor" /\ XorRegs(insn) \cap tainted # {}) =>
             /\ is_nzxor_stack_cookie(w.f, w.bb, insn)
             /\ WithTag(LastOut, "nzxor") = <<>>
        /\ (/\ insn.mnem = "xor"
            /\ Op(insn, 1).type = "o_reg" /\ Op(insn, 2).type = "o_reg"
            /\ ~contains_stack_cookie_keywords(get_cmt(insn))
            /\ XorRegs(insn) \cap tainted = {}) =>
             ~is_nzxor_stack_cookie(w.f, w.bb, insn)

\* an xor on the cookie register yielded no nzxor although the register was
\* overwritten between the cookie load and the xor
C18_Witness ==
  /\ Processed
  /\ LET w == Last
         insns == BlockInsns(w.bb)
     IN  /\ w.insn.mnem = "xor"
         /\ ~is_operand_equal(Op(w.insn, 1), Op(w.insn, 2))
         /\ \E i, j \in DOMAIN insns :
              /\ i < j /\ insns[j].ea < w.insn.ea
              /\ \E r \in XorRegs(w.insn) :
                   /\ WritesCookieTo(insns[i], r)
                   /\ ~contains_stack_cookie_keywords(Some(GetDisasm(insns[j])))
                   /\ \E n \in DOMAIN insns[j].ops :
                        /\ insns[j].ops[n].type = "o_reg"
                        /\ insns[j].ops[n].write
                        /\ insns[j].ops[n].reg = r
         /\ WithTag(LastOut, "nzxor") = <<>>

\* the callers that use the same module global as worker w
SharingWith(w) == IF workers.shared THEN DOMAIN workers.pc ELSE {w}

\* C19: two workers sharing one cache can both find it unbuilt: then
\* get_file_imports is called more than once and the callers obtain different
\* mapping objects (the state C19_Witness describes is reached).  A cache with a
\* single user, one per worker or a single caller, is built exactly once, and
\* every call on it returns that one object; a shared cache is built at most
\* once by each of its users.
C19_BuiltOncePerUnsharedCache ==
  \A w \in DOMAIN workers.pc :
    /\ workers.builds[w] <= 1
    /\ SharingWith(w) = {w} =>
         /\ workers.ret[w] # <<>> => workers.builds[w] = 1
         /\ \A i, j \in DOMAIN workers.ret[w] : workers.ret[w][i] = workers.ret[w][j]
         /\ \A i \in DOMAIN workers.ret[w] : Some(workers.ret[w][i]) = GlobalOf(w)

\* two threads sharing the cache both built it and returned different objects
C19_Witness ==
  /\ workers.shared
  /\ get_file_imports_calls > 1
  /\ \E v, w \in DOMAIN workers.pc :
       /\ v # w
       /\ workers.ret[v] # <<>> /\ workers.ret[w] # <<>>
       /\ workers.ret[v][1].obj # workers.ret[w][1].obj
=============================================================================
